---- MODULE Spec2Model ----
(***************************************************************************)
(* Model of client/cli/src/libra_client.rs: LibraClient (the verified read  *)
(* path over the AdmissionControl channel, with its trusted-state ratchet   *)
(* and bounded retry) and JsonRpcClient (the JSON-RPC submit path).         *)
(*                                                                          *)
(* One client instance, used by one thread: a public operation is started   *)
(* from "idle", each get_with_proof attempt and each HTTP send is one step  *)
(* whose outcome the remote side chooses, and the operation's tail (the     *)
(* unwrapping of the response) is one step back to "idle".                  *)
(***************************************************************************)
EXTENDS Integers, Sequences, FiniteSets, TLC

\* ---- bounds of the model ------------------------------------------------
MaxVersion == 2        \* ledger versions 0..MaxVersion
MaxEpoch == 2          \* epochs 0..MaxEpoch
MaxSeq == 2            \* sender sequence numbers 0..MaxSeq
MaxTxns == 2           \* longest transaction / event list in a response
NumIds == 2            \* JSON-RPC ids 1..NumIds stand for the random u64

\* ---- program constants --------------------------------------------------
MAX_GRPC_RETRY_COUNT == 2

\* ---- Option and Result --------------------------------------------------
None == [tag |-> "None"]
Some(x) == [tag |-> "Some", val |-> x]
Ok(v) == [ok |-> TRUE, val |-> v]
Err(k, c) == [ok |-> FALSE, kind |-> k, code |-> c]
NoResult == [ok |-> FALSE, kind |-> "unset", code |-> "-"]
Panic == [ok |-> FALSE, kind |-> "panic", code |-> "-"]

Versions == 0..MaxVersion
Epochs == 0..MaxEpoch

\* tonic::Code values the AdmissionControl channel can fail with
GrpcCodes == {"Unavailable", "Unknown", "DeadlineExceeded"}

\* ---- response items -----------------------------------------------------
\* AccountStateWithProof.blob: absent, undecodable, or holding a sequence number
AccountBlobs == {None, Some([decodes |-> FALSE, sequence_number |-> 0])}
                \cup {Some([decodes |-> TRUE, sequence_number |-> n]) : n \in 0..1}

\* A transaction list names its transactions by their place in the ledger
\* range, an event list by the place it was sent at.
Txn(i) == [txn |-> i]
Events(i) == [events_of |-> i]

TxnListPayloads ==
    [transactions : {[i \in 1..n |-> Txn(i)] : n \in 0..MaxTxns},
     events : {None} \cup {Some([i \in 1..n |-> Events(i)]) : n \in 0..MaxTxns}]

ResponseItems ==
    {[kind |-> "GetAccountState", payload |-> [blob |-> b]] : b \in AccountBlobs}
    \cup {[kind |-> "GetAccountTransactionBySequenceNumber", payload |-> [txn |-> t]] :
            t \in {None, Some([transaction |-> Txn(1), events |-> None]),
                   Some([transaction |-> Txn(1), events |-> Some(Events(1))])}}
    \cup {[kind |-> "GetTransactions", payload |-> p] : p \in TxnListPayloads}
    \cup {[kind |-> "GetEventsByEventAccessPath",
           payload |-> [events_with_proof |-> Events(1), proof_of_latest_event |-> "proof"]]}

\* One item of each variant, for a reply whose item is not of the variant
\* that was requested.
OtherItems ==
    {[kind |-> "GetAccountState", payload |-> [blob |-> None]],
     [kind |-> "GetAccountTransactionBySequenceNumber", payload |-> [txn |-> None]],
     [kind |-> "GetTransactions", payload |-> [transactions |-> <<>>, events |-> None]],
     [kind |-> "GetEventsByEventAccessPath",
      payload |-> [events_with_proof |-> Events(1), proof_of_latest_event |-> "proof"]]}

\* ---- what the AdmissionControl channel can answer one request with ------
\* update_to_latest_ledger fails with a gRPC status, or returns bytes that do
\* not decode, or returns a response: the ledger info's version and epoch,
\* whether its proofs validate against the trust and request they are checked
\* with, and one response item: any item of the requested variant, or an item
\* of another variant.
LedgerResponses(requested_item) ==
    [version : Versions, epoch : Epochs, proof_ok : BOOLEAN,
     item : {i \in ResponseItems : i.kind = requested_item.kind}
            \cup {i \in OtherItems : i.kind # requested_item.kind}]

ChannelReplies(requested_item) ==
    {[t |-> "status", code |-> c] : c \in GrpcCodes}
    \cup {[t |-> "undecodable"]}
    \cup {[t |-> "response", rsp |-> r] : r \in LedgerResponses(requested_item)}

\* ---- state --------------------------------------------------------------
VARIABLES
    trusted_state,            \* LibraClient.trusted_state: [version, epoch]
    latest_epoch_change_li,   \* LibraClient.latest_epoch_change_li: Option
    sequence_number,          \* the caller's AccountData.sequence_number
    pc,                       \* where the calling thread is
    op,                       \* the public operation in progress
    try_cnt,                  \* the local try_cnt of the retry loop in progress
    resp,                     \* the local resp / response of the loop in progress
    hist,                     \* attempts (or sends) made by the operation in progress
    ret                       \* what the last finished operation returned

vars == <<trusted_state, latest_epoch_change_li, sequence_number, pc, op,
          try_cnt, resp, hist, ret>>

NoOp == [name |-> "none"]
NoReturn == [op |-> "none", res |-> NoResult]

\* ---- the verification engine (UpdateToLatestLedgerResponse::verify) ------
\* Rejects a response older than the trusted state it is handed and one whose
\* proofs do not chain from it; otherwise classifies the advance.
verify(rsp, ts, req) ==
    IF rsp.version < ts.version \/ rsp.epoch < ts.epoch \/ ~rsp.proof_ok
    THEN Err("Verify", "-")
    ELSE IF rsp.epoch > ts.epoch
    THEN Ok([variant |-> "Epoch",
             new_state |-> [version |-> rsp.version, epoch |-> rsp.epoch],
             latest_epoch_change_li |-> [epoch |-> rsp.epoch]])
    ELSE Ok([variant |-> "Version",
             new_state |-> [version |-> rsp.version, epoch |-> ts.epoch],
             latest_epoch_change_li |-> [epoch |-> ts.epoch]])

\* ---- LibraClient::get_with_proof ----------------------------------------
\* apply_change with the Epoch arm forgetting the certificate
apply_change_epoch_keeps_li(ts, li, change) ==
    [trusted_state |-> change.new_state, latest_epoch_change_li |-> li]

\* apply_change storing an optional certificate, absent for a Version result
apply_change_version_clears_li(ts, li, change) ==
    IF change.variant = "Epoch"
    THEN [trusted_state |-> change.new_state,
          latest_epoch_change_li |-> Some(change.latest_epoch_change_li)]
    ELSE [trusted_state |-> change.new_state, latest_epoch_change_li |-> None]

\* lines 219-238: the store after a TrustedStateChange
apply_change(ts, li, change) ==
    IF change.variant = "Epoch"
    THEN [trusted_state |-> change.new_state,
          latest_epoch_change_li |-> Some(change.latest_epoch_change_li)]
    ELSE [trusted_state |-> change.new_state, latest_epoch_change_li |-> li]

\* lines 211-212: the request built for one attempt
\* the request built with version 0 as its known version whatever is stored
ledger_request_zero_version(ts, requested_item) ==
    [known_version |-> 0, item |-> requested_item]

ledger_request(ts, requested_item) ==
    [known_version |-> ts.version, item |-> requested_item]

\* get_with_proof taking the response's ledger info as the new trusted state
\* without waiting for the verification result
get_with_proof_unverified(ts, li, requested_item, reply) ==
    LET req == [known_version |-> ts.version, item |-> requested_item]
        same == [trusted_state |-> ts, latest_epoch_change_li |-> li]
    IN  IF reply.t = "status"
        THEN [resp |-> Err("Status", reply.code), store |-> same, req |-> req,
              change |-> "-", verified |-> None]
        ELSE IF reply.t = "undecodable"
        THEN [resp |-> Err("Decode", "-"), store |-> same, req |-> req, change |-> "-",
              verified |-> None]
        ELSE [resp |-> Ok(reply.rsp),
              store |-> [trusted_state |-> [version |-> reply.rsp.version,
                                            epoch |-> reply.rsp.epoch],
                         latest_epoch_change_li |-> li],
              req |-> req, change |-> "Version", verified |-> None]

\* get_with_proof storing the new trusted state before the verification
\* result is examined, and failing afterwards
get_with_proof_partial(ts, li, requested_item, reply) ==
    LET req == [known_version |-> ts.version, item |-> requested_item]
        same == [trusted_state |-> ts, latest_epoch_change_li |-> li]
    IN  IF reply.t = "status"
        THEN [resp |-> Err("Status", reply.code), store |-> same, req |-> req,
              change |-> "-", verified |-> None]
        ELSE IF reply.t = "undecodable"
        THEN [resp |-> Err("Decode", "-"), store |-> same, req |-> req, change |-> "-",
              verified |-> None]
        ELSE LET change == verify(reply.rsp, ts, req)
             IN  IF ~change.ok
                 THEN [resp |-> change,
                       store |-> [trusted_state |-> [version |-> reply.rsp.version,
                                                     epoch |-> ts.epoch],
                                  latest_epoch_change_li |-> li],
                       req |-> req, change |-> "-",
                       verified |-> Some([trusted_state |-> ts, req |-> req])]
                 ELSE [resp |-> Ok(reply.rsp), store |-> apply_change(ts, li, change.val),
                       req |-> req, change |-> change.val.variant,
                       verified |-> Some([trusted_state |-> ts, req |-> req])]

\* One attempt, as a function of the store, the requested item and the
\* channel's reply: the value returned (resp), the store afterwards, and what
\* was sent and what the response was verified against.
get_with_proof(ts, li, requested_item, reply) ==
    LET req == ledger_request(ts, requested_item)
        same == [trusted_state |-> ts, latest_epoch_change_li |-> li]
    IN  IF reply.t = "status"
        THEN [resp |-> Err("Status", reply.code), store |-> same, req |-> req,
              change |-> "-", verified |-> None]
        ELSE IF reply.t = "undecodable"
        THEN [resp |-> Err("Decode", "-"), store |-> same, req |-> req, change |-> "-",
              verified |-> None]
        ELSE LET change == verify(reply.rsp, ts, req)
             IN  IF ~change.ok
                 THEN [resp |-> change, store |-> same, req |-> req, change |-> "-",
                       verified |-> Some([trusted_state |-> ts, req |-> req])]
                 ELSE [resp |-> Ok(reply.rsp), store |-> apply_change(ts, li, change.val),
                       req |-> req, change |-> change.val.variant,
                       verified |-> Some([trusted_state |-> ts, req |-> req])]

\* ---- LibraClient::need_to_retry -----------------------------------------
\* need_to_retry with the cap compared by > instead of >=
need_to_retry_off_by_one(cnt, r) ==
    IF cnt > MAX_GRPC_RETRY_COUNT THEN FALSE
    ELSE IF ~r.ok /\ r.kind = "Status"
    THEN r.code = "Unavailable" \/ r.code = "Unknown"
    ELSE FALSE

\* need_to_retry without the look at the error: any Err is retried
need_to_retry_any_error(cnt, r) ==
    IF cnt >= MAX_GRPC_RETRY_COUNT THEN FALSE ELSE ~r.ok

\* need_to_retry without the look at the result: a success is retried too
need_to_retry_ignores_result(cnt, r) == cnt < MAX_GRPC_RETRY_COUNT

\* need_to_retry without the cap on try_cnt
need_to_retry_uncapped(cnt, r) ==
    IF ~r.ok /\ r.kind = "Status"
    THEN r.code = "Unavailable" \/ r.code = "Unknown"
    ELSE FALSE

need_to_retry(cnt, r) ==
    IF cnt >= MAX_GRPC_RETRY_COUNT THEN FALSE
    ELSE IF ~r.ok /\ r.kind = "Status"
    THEN r.code = "Unavailable" \/ r.code = "Unknown"
    ELSE FALSE

\* ---- LibraClient::new ---------------------------------------------------
\* trusted_state from a waypoint (here: version 1 of epoch 1) or the
\* trust-any-genesis state; no epoch change seen yet.
Init ==
    /\ trusted_state \in {[version |-> 0, epoch |-> 0], [version |-> 1, epoch |-> 1]}
    /\ latest_epoch_change_li = None
    /\ sequence_number = 0
    /\ pc = "idle"
    /\ op = NoOp
    /\ try_cnt = 0
    /\ resp = NoResult
    /\ hist = <<>>
    /\ ret = NoReturn

\* ---- the read operations: entry -----------------------------------------
ReadOps ==
    {[name |-> "get_account_blob", item |-> [kind |-> "GetAccountState", fetch_events |-> FALSE]],
     [name |-> "get_sequence_number", item |-> [kind |-> "GetAccountState", fetch_events |-> FALSE]],
     [name |-> "get_events_by_access_path",
      item |-> [kind |-> "GetEventsByEventAccessPath", fetch_events |-> FALSE]]}
    \cup {[name |-> "get_txn_by_acc_seq",
           item |-> [kind |-> "GetAccountTransactionBySequenceNumber", fetch_events |-> TRUE]]}
    \cup {[name |-> "get_txn_by_range",
           item |-> [kind |-> "GetTransactions", fetch_events |-> TRUE]]}

\* A public read operation is called: it builds its one request item and
\* enters get_with_proof_sync.
CallRead ==
    /\ pc = "idle"
    /\ \E o \in ReadOps : op' = o
    /\ pc' = "sync_first"
    /\ try_cnt' = 0
    /\ resp' = NoResult
    /\ hist' = <<>>
    /\ ret' = NoReturn
    /\ UNCHANGED <<trusted_state, latest_epoch_change_li, sequence_number>>

\* ---- LibraClient::get_with_proof_sync -----------------------------------
\* The store and the locals after one call of get_with_proof; hist notes the
\* attempt: the request sent, the reply's kind and ledger version, the store
\* the attempt started from, the outcome, and the trusted state and request
\* handed to verify.
DoAttempt(reply) ==
    LET a == get_with_proof(trusted_state, latest_epoch_change_li, op.item, reply)
    IN  /\ trusted_state' = a.store.trusted_state
        /\ latest_epoch_change_li' = a.store.latest_epoch_change_li
        /\ resp' = a.resp
        /\ hist' = Append(hist,
              [req |-> a.req,
               reply |-> reply.t,
               rsp_version |-> IF reply.t = "response" THEN reply.rsp.version ELSE -1,
               pre |-> [trusted_state |-> trusted_state,
                        latest_epoch_change_li |-> latest_epoch_change_li],
               ok |-> a.resp.ok,
               kind |-> IF a.resp.ok THEN "-" ELSE a.resp.kind,
               code |-> IF a.resp.ok THEN "-" ELSE a.resp.code,
               change |-> a.change,
               verified |-> a.verified])

\* let mut resp = self.get_with_proof(requested_items.clone()); try_cnt = 0
SyncFirst ==
    /\ pc = "sync_first"
    /\ \E reply \in ChannelReplies(op.item) : DoAttempt(reply)
    /\ try_cnt' = 0
    /\ pc' = "sync_loop"
    /\ UNCHANGED <<sequence_number, op, ret>>

\* while need_to_retry(try_cnt, &resp) { resp = get_with_proof(..); try_cnt += 1 }
SyncRetry ==
    /\ pc = "sync_loop"
    /\ need_to_retry(try_cnt, resp)
    /\ \E reply \in ChannelReplies(op.item) : DoAttempt(reply)
    /\ try_cnt' = try_cnt + 1
    /\ UNCHANGED <<sequence_number, pc, op, ret>>

\* the loop ends and resp is returned to the public operation
SyncReturn ==
    /\ pc = "sync_loop"
    /\ ~need_to_retry(try_cnt, resp)
    /\ pc' = "sync_ret"
    /\ UNCHANGED <<trusted_state, latest_epoch_change_li, sequence_number, op,
                   try_cnt, resp, hist, ret>>

\* ---- the read operations: what each makes of get_with_proof_sync's value --
WrongVariant == Err("Protocol", "IncorrectResponseItem")

\* Iterator::zip in place of zip_eq: stops at the shorter side
RECURSIVE zip_truncating(_, _)
zip_truncating(a, b) ==
    IF a = <<>> \/ b = <<>> THEN [panic |-> FALSE, pairs |-> <<>>]
    ELSE [panic |-> FALSE,
          pairs |-> <<(<<Head(a), Head(b)>>)>> \o zip_truncating(Tail(a), Tail(b)).pairs]

\* itertools::zip_eq(a, b).collect(): pairs by position, and panics when one
\* side ends before the other.
RECURSIVE zip_eq(_, _)
zip_eq(a, b) ==
    IF a = <<>> /\ b = <<>> THEN [panic |-> FALSE, pairs |-> <<>>]
    ELSE IF a = <<>> \/ b = <<>> THEN [panic |-> TRUE, pairs |-> <<>>]
    ELSE LET rest == zip_eq(Tail(a), Tail(b))
         IN  [panic |-> rest.panic,
              pairs |-> IF rest.panic THEN <<>> ELSE <<(<<Head(a), Head(b)>>)>> \o rest.pairs]

\* events.map(|l| l.into_iter().map(Some).collect()).unwrap_or_else(|| vec![None; num_txns])
event_lists(events, num_txns) ==
    IF events = None THEN [i \in 1..num_txns |-> None]
    ELSE [i \in 1..Len(events.val) |-> Some(events.val[i])]

\* ResponseItem::into_get_account_state_response and its siblings: the
\* payload of an item of the expected variant, an error for any other
into_response(item, kind) ==
    IF item.kind # kind THEN WrongVariant ELSE Ok(item.payload)

get_account_blob(r) ==
    IF ~r.ok THEN r
    ELSE IF ~into_response(r.val.item, "GetAccountState").ok
    THEN into_response(r.val.item, "GetAccountState")
    ELSE Ok([blob |-> r.val.item.payload.blob, version |-> r.val.version])

\* get_sequence_number falling back to 0 when the account resource does not
\* decode
get_sequence_number_or_default(r) ==
    LET b == get_account_blob(r)
    IN  IF ~b.ok THEN b
        ELSE IF b.val.blob = None THEN Ok(0)
        ELSE IF ~b.val.blob.val.decodes THEN Ok(0)
        ELSE Ok(b.val.blob.val.sequence_number)

get_sequence_number(r) ==
    LET b == get_account_blob(r)
    IN  IF ~b.ok THEN b
        ELSE IF b.val.blob = None THEN Ok(0)
        ELSE IF ~b.val.blob.val.decodes THEN Err("Decode", "AccountResource")
        ELSE Ok(b.val.blob.val.sequence_number)

get_txn_by_acc_seq(r) ==
    IF ~r.ok THEN r
    ELSE IF ~into_response(r.val.item, "GetAccountTransactionBySequenceNumber").ok
    THEN into_response(r.val.item, "GetAccountTransactionBySequenceNumber")
    ELSE LET t == r.val.item.payload.txn
         IN  IF t = None THEN Ok(None)
             ELSE Ok(Some(<<t.val.transaction, t.val.events>>))

get_txn_by_range(r) ==
    IF ~r.ok THEN r
    ELSE IF ~into_response(r.val.item, "GetTransactions").ok
    THEN into_response(r.val.item, "GetTransactions")
    ELSE LET txns == r.val.item.payload.transactions
             z == zip_eq(txns, event_lists(r.val.item.payload.events, Len(txns)))
         IN  IF z.panic THEN Panic ELSE Ok(z.pairs)

\* get_events_by_access_path whose wildcard arm hands the item back instead of
\* bailing
get_events_by_access_path_any_item(r) ==
    IF ~r.ok THEN r
    ELSE IF r.val.item.kind # "GetEventsByEventAccessPath" THEN Ok(r.val.item)
    ELSE Ok(<<r.val.item.payload.events_with_proof,
              r.val.item.payload.proof_of_latest_event>>)

get_events_by_access_path(r) ==
    IF ~r.ok THEN r
    ELSE IF r.val.item.kind # "GetEventsByEventAccessPath" THEN WrongVariant
    ELSE Ok(<<r.val.item.payload.events_with_proof,
              r.val.item.payload.proof_of_latest_event>>)

\* The operation returns v to its caller (a panic unwinds the calling thread).
Return(v) ==
    /\ ret' = [op |-> op.name, res |-> v]
    /\ pc' = IF v = Panic THEN "panicked" ELSE "idle"
    /\ op' = NoOp
    /\ try_cnt' = 0
    /\ resp' = NoResult
    /\ hist' = <<>>

ReadFrame == UNCHANGED <<trusted_state, latest_epoch_change_li, sequence_number>>

GetAccountBlobReturn ==
    /\ pc = "sync_ret" /\ op.name = "get_account_blob"
    /\ Return(get_account_blob(resp))
    /\ ReadFrame

\* get_sequence_number writing the number it fetched into the sender record
GetSequenceNumberReturnSyncsSender ==
    /\ pc = "sync_ret" /\ op.name = "get_sequence_number"
    /\ Return(get_sequence_number(resp))
    /\ sequence_number' = IF get_sequence_number(resp).ok
                          THEN get_sequence_number(resp).val
                          ELSE sequence_number
    /\ UNCHANGED <<trusted_state, latest_epoch_change_li>>

GetSequenceNumberReturn ==
    /\ pc = "sync_ret" /\ op.name = "get_sequence_number"
    /\ Return(get_sequence_number(resp))
    /\ ReadFrame

GetTxnByAccSeqReturn ==
    /\ pc = "sync_ret" /\ op.name = "get_txn_by_acc_seq"
    /\ Return(get_txn_by_acc_seq(resp))
    /\ ReadFrame

GetTxnByRangeReturn ==
    /\ pc = "sync_ret" /\ op.name = "get_txn_by_range"
    /\ Return(get_txn_by_range(resp))
    /\ ReadFrame

GetEventsByAccessPathReturn ==
    /\ pc = "sync_ret" /\ op.name = "get_events_by_access_path"
    /\ Return(get_events_by_access_path(resp))
    /\ ReadFrame

\* ---- JsonRpcClient ------------------------------------------------------
Ids == 1..NumIds

\* What one HTTP POST can end with: a send failure, or a response with a
\* status and a body; the body of a JSON-RPC answer is a JSON object whose
\* fields may each be missing.
JsonBodies ==
    [json : {TRUE},
     jsonrpc : {None, Some("2.0"), Some("1.0")},
     id : {None} \cup {Some(i) : i \in Ids},
     error : {None, Some("rejected")},
     result : {None, Some("null"), Some("value")}]

NotJson == [json |-> FALSE, jsonrpc |-> None, id |-> None, error |-> None, result |-> None]

\* A response with an error status has no JSON body, or a body that passes
\* every later check but for its id.
HttpResponses ==
    {[status_ok |-> FALSE, body |-> NotJson], [status_ok |-> TRUE, body |-> NotJson]}
    \cup [status_ok : {TRUE}, body : JsonBodies]
    \cup {[status_ok |-> FALSE, body |-> b] :
            b \in {d \in JsonBodies : /\ d.jsonrpc = Some("2.0") /\ d.error = None
                                       /\ d.result = Some("null")}}

SendResults ==
    {Err("Send", "Connect"), Err("Send", "Timeout")} \cup {Ok(h) : h \in HttpResponses}

\* JsonRpcClient::send_libra_request, lines 79-85: the request object
json_request(method, params, id) ==
    [jsonrpc |-> "2.0", method |-> method, params |-> params, id |-> id]

\* the loop condition with <= in place of <
send_retry_off_by_one(cnt, response) == cnt <= MAX_GRPC_RETRY_COUNT /\ ~response.ok

\* the loop condition taking a response with an error status for a failed send
send_retry_on_status(cnt, response) ==
    cnt < MAX_GRPC_RETRY_COUNT /\ (IF response.ok THEN ~response.val.status_ok ELSE TRUE)

\* the loop condition without the look at the response
send_retry_any_response(cnt, response) == cnt < MAX_GRPC_RETRY_COUNT

\* JsonRpcClient::send_with_retry: the loop condition
send_retry(cnt, response) == cnt < MAX_GRPC_RETRY_COUNT /\ ~response.ok

\* JsonRpcClient::send_with_retry: what the next send transmits
resend(request) == request

\* send_libra_request without the check of the response id
send_libra_request_no_id_check(id, response) ==
    IF ~response.ok THEN response
    ELSE IF ~response.val.status_ok THEN Err("Server", "Status")
    ELSE LET data == response.val.body
         IN  IF ~data.json THEN Err("Json", "Parse")
             ELSE IF data.jsonrpc # Some("2.0") THEN Err("Protocol", "Jsonrpc")
             ELSE IF data.error # None THEN Err("JsonRpcError", data.error.val)
             ELSE IF data.result # None THEN Ok(data.result.val)
             ELSE Err("Protocol", "NoResult")

\* send_libra_request looking for result before error
send_libra_request_result_first(id, response) ==
    IF ~response.ok THEN response
    ELSE IF ~response.val.status_ok THEN Err("Server", "Status")
    ELSE LET data == response.val.body
         IN  IF ~data.json THEN Err("Json", "Parse")
             ELSE IF data.jsonrpc # Some("2.0") THEN Err("Protocol", "Jsonrpc")
             ELSE IF data.id # Some(id) THEN Err("Protocol", "Id")
             ELSE IF data.result # None THEN Ok(data.result.val)
             ELSE IF data.error # None THEN Err("JsonRpcError", data.error.val)
             ELSE Err("Protocol", "NoResult")

\* JsonRpcClient::send_libra_request, lines 87-121: what it makes of the value
\* of send_with_retry
send_libra_request(id, response) ==
    IF ~response.ok THEN response
    ELSE IF ~response.val.status_ok THEN Err("Server", "Status")
    ELSE LET data == response.val.body
         IN  IF ~data.json THEN Err("Json", "Parse")
             ELSE IF data.jsonrpc # Some("2.0") THEN Err("Protocol", "Jsonrpc")
             ELSE IF data.id # Some(id) THEN Err("Protocol", "Id")
             ELSE IF data.error # None THEN Err("JsonRpcError", data.error.val)
             ELSE IF data.result # None THEN Ok(data.result.val)
             ELSE Err("Protocol", "NoResult")

\* submit_transaction bumping the sequence number before it looks at the
\* result payload
submit_transaction_bumps_early(with_sender, seq, r) ==
    IF r.ok
    THEN [ret |-> IF r.val # "null" THEN Err("UnexpectedResult", r.val) ELSE Ok("unit"),
          sequence_number |-> IF with_sender THEN seq + 1 ELSE seq]
    ELSE [ret |-> Err("SubmissionFailed", <<r.kind, r.code>>), sequence_number |-> seq]

\* submit_transaction without the ensure! on the result payload
submit_transaction_any_result(with_sender, seq, r) ==
    IF r.ok
    THEN [ret |-> Ok("unit"), sequence_number |-> IF with_sender THEN seq + 1 ELSE seq]
    ELSE [ret |-> Err("SubmissionFailed", <<r.kind, r.code>>), sequence_number |-> seq]

\* LibraClient::submit_transaction, lines 185-204: the value returned and the
\* sender's sequence number afterwards
submit_transaction(with_sender, seq, r) ==
    IF r.ok
    THEN IF r.val # "null"
         THEN [ret |-> Err("UnexpectedResult", r.val), sequence_number |-> seq]
         ELSE [ret |-> Ok("unit"),
               sequence_number |-> IF with_sender THEN seq + 1 ELSE seq]
    ELSE [ret |-> Err("SubmissionFailed", <<r.kind, r.code>>), sequence_number |-> seq]

\* submit_transaction is called, for a supplied sender record or for none; the
\* request is built once, with a fresh id.
CallSubmit ==
    /\ pc = "idle"
    /\ sequence_number < MaxSeq
    /\ \E with_sender \in BOOLEAN, id \in Ids :
          op' = [name |-> "submit_transaction", with_sender |-> with_sender,
                 request |-> json_request("submit", <<"hex(lcs(txn))">>, id)]
    /\ pc' = "send_first"
    /\ try_cnt' = 0
    /\ resp' = NoResult
    /\ hist' = <<>>
    /\ ret' = NoReturn
    /\ UNCHANGED <<trusted_state, latest_epoch_change_li, sequence_number>>

\* self.send(&request): the request goes out and the remote side answers
DoSend(request) ==
    \E r \in SendResults :
        /\ resp' = r
        /\ hist' = Append(hist, [req |-> request, ok |-> r.ok])

\* let mut response = self.send(&request); let mut try_cnt = 0;
SendFirst ==
    /\ pc = "send_first"
    /\ DoSend(op.request)
    /\ try_cnt' = 0
    /\ pc' = "send_loop"
    /\ UNCHANGED <<trusted_state, latest_epoch_change_li, sequence_number, op, ret>>

\* while try_cnt < MAX_GRPC_RETRY_COUNT && response.is_err() { send; try_cnt += 1 }
SendRetry ==
    /\ pc = "send_loop"
    /\ send_retry(try_cnt, resp)
    /\ DoSend(resend(op.request))
    /\ try_cnt' = try_cnt + 1
    /\ UNCHANGED <<trusted_state, latest_epoch_change_li, sequence_number, pc, op, ret>>

\* the loop ends and response is returned to send_libra_request
SendReturn ==
    /\ pc = "send_loop"
    /\ ~send_retry(try_cnt, resp)
    /\ pc' = "send_ret"
    /\ UNCHANGED <<trusted_state, latest_epoch_change_li, sequence_number, op,
                   try_cnt, resp, hist, ret>>

\* send_libra_request validates the response and submit_transaction ends
SubmitTransactionReturn ==
    /\ pc = "send_ret" /\ op.name = "submit_transaction"
    /\ LET out == submit_transaction(op.with_sender, sequence_number,
                                     send_libra_request(op.request.id, resp))
       IN  /\ Return(out.ret)
           /\ sequence_number' = out.sequence_number
    /\ UNCHANGED <<trusted_state, latest_epoch_change_li>>

Next ==
    \/ CallRead
    \/ SyncFirst
    \/ SyncRetry
    \/ SyncReturn
    \/ GetAccountBlobReturn
    \/ GetSequenceNumberReturn
    \/ GetTxnByAccSeqReturn
    \/ GetTxnByRangeReturn
    \/ GetEventsByAccessPathReturn
    \/ CallSubmit
    \/ SendFirst
    \/ SendRetry
    \/ SendReturn
    \/ SubmitTransactionReturn

Spec == Init /\ [][Next]_vars

\* The steps inside an operation: the calling thread runs on and every channel
\* call returns. When an operation is called is up to the caller.
Step ==
    \/ SyncFirst
    \/ SyncRetry
    \/ SyncReturn
    \/ GetAccountBlobReturn
    \/ GetSequenceNumberReturn
    \/ GetTxnByAccSeqReturn
    \/ GetTxnByRangeReturn
    \/ GetEventsByAccessPathReturn
    \/ SendFirst
    \/ SendRetry
    \/ SendReturn
    \/ SubmitTransactionReturn

LiveSpec == Spec /\ WF_vars(Step)

\* ---- properties ---------------------------------------------------------
ReadPcs == {"sync_first", "sync_loop", "sync_ret"}
SendPcs == {"send_first", "send_loop", "send_ret"}

\* this step is one call of get_with_proof
AttemptStep == pc \in ReadPcs /\ Len(hist') = Len(hist) + 1

Last(h) == h[Len(h)]

\* C1: over any sequence of get_with_proof attempts, successful or failed,
\* first tries or retries, the version of the stored trusted_state never
\* decreases (the engine rejecting a response older than the state it is
\* handed).
C1_VersionNeverDecreases ==
    [][trusted_state'.version >= trusted_state.version]_vars

\* a read made two attempts: a retryable failure that left the version alone,
\* then a verified response that advanced it
C1_Witness ==
    /\ pc = "sync_loop" /\ Len(hist) = 2
    /\ ~hist[1].ok /\ hist[1].kind = "Status"
    /\ hist[2].ok
    /\ hist[2].pre.trusted_state.version = hist[1].pre.trusted_state.version
    /\ trusted_state.version > hist[2].pre.trusted_state.version

\* C2: a get_with_proof attempt that fails (transport, decode or verification
\* failure, a stale response included) returns an error and leaves
\* trusted_state and latest_epoch_change_li exactly as they were; the two
\* fields change only in an attempt that returns Ok.
C2_FailedAttemptLeavesStore ==
    [][/\ (AttemptStep /\ ~resp'.ok) =>
             UNCHANGED <<trusted_state, latest_epoch_change_li>>
       /\ (trusted_state' # trusted_state \/ latest_epoch_change_li' # latest_epoch_change_li)
             => (AttemptStep /\ resp'.ok)]_vars

\* a response older than the trusted version has just been rejected, after an
\* earlier operation had advanced the store past its initial state
C2_Witness ==
    /\ pc = "sync_loop"
    /\ Last(hist).reply = "response" /\ ~Last(hist).ok /\ Last(hist).kind = "Verify"
    /\ Last(hist).rsp_version < Last(hist).req.known_version
    /\ latest_epoch_change_li # None
    /\ trusted_state = Last(hist).pre.trusted_state
    /\ latest_epoch_change_li = Last(hist).pre.latest_epoch_change_li

\* C3: an attempt whose verification returns Epoch stores that result's
\* new_state and its certificate; one whose verification returns Version
\* stores its new_state and leaves the certificate alone; and the certificate
\* is assigned in no other step.
C3_CertificateIffEpoch ==
    [][/\ (AttemptStep /\ resp'.ok) =>
            LET ch == verify(resp'.val, trusted_state,
                             ledger_request(trusted_state, op.item))
            IN  /\ ch.ok
                /\ trusted_state' = ch.val.new_state
                /\ ch.val.variant = "Epoch" =>
                      latest_epoch_change_li' = Some(ch.val.latest_epoch_change_li)
                /\ ch.val.variant = "Version" =>
                      latest_epoch_change_li' = latest_epoch_change_li
       /\ ~(AttemptStep /\ resp'.ok /\ Last(hist').change = "Epoch") =>
            latest_epoch_change_li' = latest_epoch_change_li]_vars

\* a Version result has just advanced the trusted state while the certificate
\* of an earlier Epoch result is still the stored one
C3_Witness ==
    /\ pc = "sync_loop"
    /\ Last(hist).ok /\ Last(hist).change = "Version"
    /\ Last(hist).pre.latest_epoch_change_li # None
    /\ latest_epoch_change_li = Last(hist).pre.latest_epoch_change_li
    /\ trusted_state.version > Last(hist).pre.trusted_state.version

\* C10: latest_epoch_change_li is None at construction, becomes Some only in
\* an attempt whose verification returned Epoch, and once Some is Some in
\* every later state.
C10_CertificateNeverCleared ==
    /\ latest_epoch_change_li = None
    /\ [][/\ latest_epoch_change_li # None => latest_epoch_change_li' # None
          /\ (latest_epoch_change_li = None /\ latest_epoch_change_li' # None)
                => (AttemptStep /\ Last(hist').change = "Epoch")]_vars

\* an Epoch result has just replaced the certificate stored by an earlier
\* Epoch result with its own
C10_Witness ==
    /\ pc = "sync_loop" /\ Len(hist) = 1
    /\ hist[1].change = "Epoch"
    /\ hist[1].pre.latest_epoch_change_li # None
    /\ latest_epoch_change_li # None
    /\ latest_epoch_change_li # hist[1].pre.latest_epoch_change_li

\* submit_transaction returns in this step
SubmitReturnStep == pc = "send_ret" /\ pc' # "send_ret"

\* C4: submit_transaction called with a sender record adds exactly one to its
\* sequence_number when it returns Ok and leaves it unchanged when it returns
\* an error of any kind; nothing else changes the sequence number.
C4_IncrementIffOk ==
    [][/\ (SubmitReturnStep /\ op.with_sender) =>
            /\ ret'.res.ok => sequence_number' = sequence_number + 1
            /\ ~ret'.res.ok => sequence_number' = sequence_number
       /\ sequence_number' # sequence_number =>
            (SubmitReturnStep /\ op.with_sender /\ ret'.res.ok)]_vars

\* a second successful submit for the sender has returned: two increments
C4_Witness ==
    /\ pc = "idle"
    /\ ret.op = "submit_transaction" /\ ret.res.ok
    /\ sequence_number = 2

RetryableFailure(e) ==
    ~e.ok /\ e.kind = "Status" /\ e.code \in {"Unavailable", "Unknown"}

NonRetryableFailure(e) ==
    ~e.ok /\ ~(e.kind = "Status" /\ e.code \in {"Unavailable", "Unknown"})

\* C5: when get_with_proof_sync returns and every attempt it made failed with
\* gRPC status Unavailable or Unknown, it made exactly 3 attempts and returns
\* the last attempt's transport error.
C5_RetryableFailureThreeAttempts ==
    (pc = "sync_ret" /\ \A i \in 1..Len(hist) : RetryableFailure(hist[i])) =>
        /\ Len(hist) = 3
        /\ resp = Err("Status", hist[3].code)

\* three attempts failed, with Unavailable and with Unknown among them, and
\* the loop has ended
C5_Witness ==
    /\ pc = "sync_ret" /\ Len(hist) = 3
    /\ \A i \in 1..3 : RetryableFailure(hist[i])
    /\ hist[1].code # hist[3].code
    /\ ~resp.ok

\* C6: within one JSON-RPC call every send carries the request object built
\* once for the call (the same id), a send that succeeded is the last one, and
\* when send_with_retry returns with every send failed it made exactly 3 sends
\* and returns the send failure.
C6_SendThreeTimesSameRequest ==
    pc \in SendPcs =>
        /\ \A i \in 1..Len(hist) : hist[i].req = op.request /\ hist[i].req.id = hist[1].req.id
        /\ \A i \in 1..(Len(hist) - 1) : ~hist[i].ok
        /\ (pc = "send_ret" /\ \A i \in 1..Len(hist) : ~hist[i].ok) =>
              (Len(hist) = 3 /\ ~resp.ok /\ resp.kind = "Send")

\* three sends failed and send_with_retry has returned the failure
C6_Witness ==
    /\ pc = "send_ret" /\ Len(hist) = 3
    /\ \A i \in 1..3 : ~hist[i].ok
    /\ ~resp.ok

\* C7: an attempt of a read operation that fails with anything but gRPC
\* status Unavailable or Unknown (a verification error, a decode error,
\* another status) is the operation's last attempt, and that error is what
\* get_with_proof_sync returns; failing that way at once, the operation makes
\* exactly 1 attempt.
C7_NonRetryableFailureEndsLoop ==
    pc \in ReadPcs =>
        \A i \in 1..Len(hist) :
            NonRetryableFailure(hist[i]) =>
                /\ i = Len(hist)
                /\ pc = "sync_ret" => resp = Err(hist[i].kind, hist[i].code)

\* the first attempt failed verification and get_with_proof_sync has returned
\* after that one attempt
C7_Witness ==
    /\ pc = "sync_ret" /\ Len(hist) = 1
    /\ hist[1].reply = "response" /\ ~hist[1].ok /\ hist[1].kind = "Verify"
    /\ ~resp.ok

\* the response's id field is missing or is not the id that was sent
IdMismatch(response, id) ==
    response.ok /\ response.val.body.id # Some(id)

\* C8: when the response that send_with_retry returns has an id field that is
\* missing or differs from the id sent, send_libra_request fails, whatever
\* the rest of the response holds, and submit_transaction returns an error
\* and leaves the sequence number alone.
C8_IdMismatchFails ==
    [][(SubmitReturnStep /\ IdMismatch(resp, op.request.id)) =>
            /\ ~send_libra_request(op.request.id, resp).ok
            /\ ~ret'.res.ok
            /\ sequence_number' = sequence_number]_vars

\* a response with the right protocol tag, a null result and no error, but
\* another id than the one sent, has reached send_libra_request
C8_Witness ==
    /\ pc = "send_ret" /\ resp.ok
    /\ resp.val.status_ok /\ resp.val.body.json
    /\ resp.val.body.jsonrpc = Some("2.0")
    /\ resp.val.body.id # None /\ resp.val.body.id # Some(op.request.id)
    /\ resp.val.body.error = None
    /\ resp.val.body.result = Some("null")
    /\ op.with_sender

\* get_txn_by_range returns in this step
RangeReturnStep ==
    pc = "sync_ret" /\ op.name = "get_txn_by_range" /\ pc' # "sync_ret"

\* C9: from a verified GetTransactions response get_txn_by_range returns one
\* pair per transaction, in the transactions' order: the i-th pair holds the
\* i-th transaction and, when the response carries as many event lists as
\* transactions, the i-th event list; every pair holds None when the response
\* carries no events; and when the counts differ the call does not return a
\* list at all.
C9_RangePairing ==
    [][(RangeReturnStep /\ resp.ok /\ resp.val.item.kind = "GetTransactions") =>
            LET txns == resp.val.item.payload.transactions
                evs == resp.val.item.payload.events
                out == ret'.res
            IN  /\ evs = None =>
                      /\ out.ok /\ Len(out.val) = Len(txns)
                      /\ \A i \in 1..Len(txns) : out.val[i] = <<txns[i], None>>
                /\ (evs # None /\ Len(evs.val) = Len(txns)) =>
                      /\ out.ok /\ Len(out.val) = Len(txns)
                      /\ \A i \in 1..Len(txns) : out.val[i] = <<txns[i], Some(evs.val[i])>>
                /\ (evs # None /\ Len(evs.val) # Len(txns)) => ~out.ok]_vars

\* get_txn_by_range has returned two pairs, the second one holding the second
\* transaction and the second event list
C9_Witness ==
    /\ pc = "idle"
    /\ ret.op = "get_txn_by_range" /\ ret.res.ok
    /\ Len(ret.res.val) = 2
    /\ ret.res.val[2] = <<Txn(2), Some(Events(2))>>

\* what submit_transaction returns when send_libra_request failed for cause e
SubmitError(k, c) == Err("SubmissionFailed", <<k, c>>)

\* C11: send_libra_request checks a received response in the order HTTP
\* status, JSON body, jsonrpc tag, id, error, result, and the first check that
\* fails decides the failure (seen here in the error submit_transaction wraps):
\* a wrong tag wins over a wrong id, an error field over a result that is
\* also there, a response with neither fails, and only a response passing
\* every check hands its result on.
C11_ValidationOrder ==
    [][(SubmitReturnStep /\ resp.ok) =>
            LET h == resp.val
                d == resp.val.body
                id == op.request.id
                out == ret'.res
            IN  /\ ~h.status_ok => out = SubmitError("Server", "Status")
                /\ (h.status_ok /\ ~d.json) => out = SubmitError("Json", "Parse")
                /\ (h.status_ok /\ d.json /\ d.jsonrpc # Some("2.0")) =>
                        out = SubmitError("Protocol", "Jsonrpc")
                /\ (h.status_ok /\ d.json /\ d.jsonrpc = Some("2.0") /\ d.id # Some(id)) =>
                        out = SubmitError("Protocol", "Id")
                /\ (h.status_ok /\ d.json /\ d.jsonrpc = Some("2.0") /\ d.id = Some(id)
                        /\ d.error # None) =>
                        out = SubmitError("JsonRpcError", d.error.val)
                /\ (h.status_ok /\ d.json /\ d.jsonrpc = Some("2.0") /\ d.id = Some(id)
                        /\ d.error = None /\ d.result = None) =>
                        out = SubmitError("Protocol", "NoResult")
                /\ (h.status_ok /\ d.json /\ d.jsonrpc = Some("2.0") /\ d.id = Some(id)
                        /\ d.error = None /\ d.result # None) =>
                        /\ out.ok <=> d.result.val = "null"
                        /\ ~out.ok => out = Err("UnexpectedResult", d.result.val)]_vars

\* a response with the right tag and id that holds an error and a result has
\* reached send_libra_request
C11_Witness ==
    /\ pc = "send_ret" /\ resp.ok
    /\ resp.val.status_ok /\ resp.val.body.json
    /\ resp.val.body.jsonrpc = Some("2.0")
    /\ resp.val.body.id = Some(op.request.id)
    /\ resp.val.body.error # None
    /\ resp.val.body.result = Some("null")

\* the response passes every check of send_libra_request
Validated(response, id) ==
    /\ response.ok /\ response.val.status_ok /\ response.val.body.json
    /\ response.val.body.jsonrpc = Some("2.0")
    /\ response.val.body.id = Some(id)
    /\ response.val.body.error = None
    /\ response.val.body.result # None

\* C12: submit_transaction returns Ok exactly when the response passes every
\* check of send_libra_request and its result is null; a validated response
\* with any other result makes it return an error and leaves the sender's
\* sequence number alone.
C12_SuccessIffNullResult ==
    [][SubmitReturnStep =>
            /\ ret'.res.ok <=>
                  (Validated(resp, op.request.id) /\ resp.val.body.result = Some("null"))
            /\ (Validated(resp, op.request.id) /\ resp.val.body.result # Some("null")) =>
                  /\ ~ret'.res.ok
                  /\ ret'.res.kind = "UnexpectedResult"
                  /\ sequence_number' = sequence_number]_vars

\* a submit for a sender that had one transaction accepted has failed on a
\* result that is not null, the sequence number still 1
C12_Witness ==
    /\ pc = "idle"
    /\ ret.op = "submit_transaction" /\ ~ret.res.ok
    /\ ret.res.kind = "UnexpectedResult"
    /\ sequence_number = 1

\* C13, as claimed: a JSON-RPC call whose every HTTP response carries a
\* non-success status sends the request 3 times before it fails.
C13_StatusRetriedThreeTimes ==
    (/\ pc = "send_ret" /\ resp.ok /\ ~resp.val.status_ok
     /\ \A i \in 1..Len(hist) : hist[i].ok) => Len(hist) = 3

\* C13, amended: only a failed send is resent. A response with a non-success
\* HTTP status ends the send loop: every send before it was a send failure,
\* there were at most 3 sends, the call fails with the server error and the
\* sequence number stays; answered that way at the first send, the call sent
\* the request once.
C13_StatusNotRetried ==
    [][(SubmitReturnStep /\ resp.ok /\ ~resp.val.status_ok) =>
            /\ Last(hist).ok
            /\ \A i \in 1..(Len(hist) - 1) : ~hist[i].ok
            /\ Len(hist) <= 3
            /\ hist[1].ok => Len(hist) = 1
            /\ ret'.res = SubmitError("Server", "Status")
            /\ sequence_number' = sequence_number]_vars

\* the first send was answered with a non-success status and send_with_retry
\* has returned after that one send
C13_Witness ==
    /\ pc = "send_ret" /\ Len(hist) = 1
    /\ resp.ok /\ ~resp.val.status_ok
    /\ try_cnt = 0

\* C14: within one JSON-RPC call a send that succeeded is the last send: no
\* request goes out after it, whatever the response holds, so a call whose
\* first send succeeds has sent its request exactly once when it returns.
C14_NoSendAfterSuccess ==
    /\ [](pc \in SendPcs =>
            /\ \A i \in 1..Len(hist) : hist[i].ok => i = Len(hist)
            /\ (Len(hist) >= 1 /\ hist[1].ok) => Len(hist) = 1)
    /\ [][(pc \in SendPcs /\ resp.ok) => (hist' = hist \/ SubmitReturnStep)]_vars

\* the first send succeeded, its response holds an error field, and
\* send_with_retry has returned after that one send
C14_Witness ==
    /\ pc = "send_ret" /\ Len(hist) = 1 /\ hist[1].ok
    /\ resp.ok /\ resp.val.status_ok /\ resp.val.body.json
    /\ resp.val.body.error # None

\* get_sequence_number returns in this step
SeqNumReturnStep ==
    pc = "sync_ret" /\ op.name = "get_sequence_number" /\ pc' # "sync_ret"

\* the response get_with_proof_sync returned holds an account state item
HasAccountState(r) == r.ok /\ r.val.item.kind = "GetAccountState"

\* what get_sequence_number does with a failed read, a wrong item, a blob that
\* does not decode and a blob that does
SeqNumFromBlobOrError ==
    /\ ~resp.ok => ret'.res = resp
    /\ (resp.ok /\ ~HasAccountState(resp)) => ~ret'.res.ok
    /\ (HasAccountState(resp) /\ resp.val.item.payload.blob = None) => ret'.res = Ok(0)
    /\ (HasAccountState(resp) /\ resp.val.item.payload.blob # None) =>
          LET account == resp.val.item.payload.blob.val
          IN  /\ account.decodes => ret'.res = Ok(account.sequence_number)
              /\ ~account.decodes => ~ret'.res.ok

\* C15, as claimed: get_sequence_number returns 0 only when the read
\* succeeded and the response holds no account blob; with a blob it returns
\* the decoded sequence number, and a failed read or decoding is returned as
\* the error.
C15_ZeroOnlyWithoutBlob ==
    [][SeqNumReturnStep =>
            /\ SeqNumFromBlobOrError
            /\ ret'.res = Ok(0) =>
                  (HasAccountState(resp) /\ resp.val.item.payload.blob = None)]_vars

\* C15, amended: get_sequence_number returns 0 only when the read succeeded
\* and the response holds no account blob or a blob whose decoded sequence
\* number is 0; with a blob it returns the decoded sequence number, and a
\* failed read or decoding is returned as the error, never as 0.
C15_ZeroWithoutBlobOrDecodedZero ==
    [][SeqNumReturnStep =>
            /\ SeqNumFromBlobOrError
            /\ ret'.res = Ok(0) =>
                  /\ HasAccountState(resp)
                  /\ \/ resp.val.item.payload.blob = None
                     \/ /\ resp.val.item.payload.blob.val.decodes
                        /\ resp.val.item.payload.blob.val.sequence_number = 0]_vars

\* get_sequence_number has returned the sequence number 1 decoded from a blob
C15_Witness ==
    /\ pc = "idle"
    /\ ret.op = "get_sequence_number" /\ ret.res.ok
    /\ ret.res.val = 1

\* attempt i of the running read operation sent the stored version and was
\* verified against the stored trusted state and the request it sent
AttemptUsesStoredTrust(i) ==
    /\ hist[i].req.known_version = hist[i].pre.trusted_state.version
    /\ hist[i].req.item = op.item
    /\ hist[i].reply = "response" =>
          hist[i].verified = Some([trusted_state |-> hist[i].pre.trusted_state,
                                   req |-> hist[i].req])
    /\ hist[i].reply # "response" => hist[i].verified = None

\* C16: every request of the read path, retries and requests after a trust
\* advance included, carries the version of the trusted_state stored at that
\* attempt, and its response is verified against that stored trusted_state
\* and that same request.
C16_RequestCarriesStoredVersion ==
    pc \in ReadPcs => \A i \in 1..Len(hist) : AttemptUsesStoredTrust(i)

\* a retry whose request carries version 2, which only an earlier operation's
\* verified response can have stored, and whose response was verified
C16_Witness ==
    /\ pc \in ReadPcs
    /\ Len(hist) = 2
    /\ hist[2].req.known_version = 2
    /\ hist[2].reply = "response"
    /\ hist[2].verified # None

\* get_with_proof_sync holds a verified response whose item is not of the
\* variant the running read operation requested
HoldsOtherVariant ==
    /\ pc \in {"sync_loop", "sync_ret"}
    /\ resp.ok
    /\ resp.val.item.kind # op.item.kind

\* C17: a read operation whose verified response item is of another variant
\* than the one it requested sends no further request and returns an error,
\* never data; so for all five read operations.
C17_OtherVariantFails ==
    [][HoldsOtherVariant =>
            \/ pc = "sync_loop" /\ pc' = "sync_ret" /\ hist' = hist /\ resp' = resp
            \/ /\ pc = "sync_ret" /\ pc' = "idle"
               /\ ret'.op = op.name
               /\ ret'.res = WrongVariant]_vars

\* get_events_by_access_path is about to return, after one attempt, from a
\* verified response that holds a transaction list
C17_Witness ==
    /\ pc = "sync_ret"
    /\ op.name = "get_events_by_access_path"
    /\ resp.ok
    /\ resp.val.item.kind = "GetTransactions"
    /\ Len(hist) = 1 /\ hist[1].ok

\* a public operation is running / no operation is running
Running == pc \in ReadPcs \cup SendPcs
Completed == pc \in {"idle", "panicked"}

\* what a loop that has ended holds: a success, a failure that is not retried,
\* or a retryable failure of the third attempt
LoopOutcome ==
    /\ pc = "sync_ret" =>
          \/ resp.ok
          \/ NonRetryableFailure(Last(hist))
          \/ RetryableFailure(Last(hist)) /\ Len(hist) = 3
    /\ pc = "send_ret" =>
          \/ resp.ok
          \/ ~resp.ok /\ Len(hist) = 3

\* C18: given that every channel call returns, every public operation
\* completes; a read operation makes at most 3 attempts and a JSON-RPC call at
\* most 3 sends, and its loop ends with a success, with the retries used up
\* or with an error that is not retried.
C18_EveryOperationCompletes ==
    /\ [](Running => Len(hist) <= 3 /\ LoopOutcome)
    /\ Running ~> Completed

\* a read operation is about to return with its retries used up
C18_Witness ==
    /\ pc = "sync_ret"
    /\ Len(hist) = 3
    /\ RetryableFailure(hist[3])

\* this step belongs to submit_transaction / to a read operation, its call
\* and its return included
SubmitStep == pc \in SendPcs \/ pc' \in SendPcs
ReadStep == pc \in ReadPcs \/ pc' \in ReadPcs

\* C19: no step of submit_transaction, succeeding or failing, changes
\* trusted_state or latest_epoch_change_li, and no step of a read operation
\* changes the sender record's sequence_number.
C19_PathsKeepApart ==
    [][/\ SubmitStep => /\ trusted_state' = trusted_state
                        /\ latest_epoch_change_li' = latest_epoch_change_li
       /\ ReadStep => sequence_number' = sequence_number]_vars

\* a read operation has returned a sequence number other than the sender
\* record's, after a submit had incremented the record and reads had stored
\* an epoch change
C19_Witness ==
    /\ pc = "idle"
    /\ ret.op = "get_sequence_number" /\ ret.res.ok
    /\ sequence_number = 1
    /\ ret.res.val = 0
    /\ latest_epoch_change_li # None
    /\ trusted_state.version = 2

\* the store as the running read operation found it
StoreAtCall == hist[1].pre

StoreNow ==
    [trusted_state |-> trusted_state, latest_epoch_change_li |-> latest_epoch_change_li]

\* C20: within one read operation only the final attempt can update the
\* store: every attempt before the last failed and started from the store the
\* operation found, a failed last attempt leaves that store too, and a
\* successful attempt ends the loop, its response being the one returned and
\* the one whose verification produced the stored trusted_state.
C20_StoreUpdatedOnceByFinalAttempt ==
    (pc \in {"sync_loop", "sync_ret"}) =>
        /\ \A i \in 1..Len(hist) :
              /\ hist[i].pre = StoreAtCall
              /\ hist[i].ok => i = Len(hist)
        /\ ~Last(hist).ok => StoreNow = StoreAtCall
        /\ resp.ok = Last(hist).ok
        /\ resp.ok =>
              /\ Last(hist).rsp_version = resp.val.version
              /\ Last(hist).verified =
                    Some([trusted_state |-> StoreAtCall.trusted_state,
                          req |-> Last(hist).req])
              /\ trusted_state =
                    verify(resp.val, StoreAtCall.trusted_state, Last(hist).req).val.new_state

\* a read operation is about to return the response of its third attempt,
\* which moved the store after two failed attempts had left it alone
C20_Witness ==
    /\ pc = "sync_ret"
    /\ Len(hist) = 3
    /\ hist[3].ok
    /\ resp.ok
    /\ trusted_state # hist[1].pre.trusted_state
    /\ trusted_state.version = resp.val.version

====
